---- MODULE Spec2Model ----
(***************************************************************************)
(* A model of schemafy's expansion engine (src/src/lib.rs): the reference  *)
(* resolver (schema_ref, type_ref), the allOf merger (merge_all_of,        *)
(* merge_option, as_mut_vec), the type expander (schema, expand_type,      *)
(* expand_type_), the field expander and Expander::expand.                 *)
(*                                                                         *)
(* Conventions.  A Rust String is a sequence of one-character strings, so  *)
(* that split, to_pascal_case, starts_with and == are computed on the      *)
(* characters.  Option<T> is a sequence of length at most one (None is     *)
(* <<>>, Some(x) is <<x>>).  A BTreeMap is a function whose domain is the  *)
(* key set; it is iterated in the byte order of its keys.  A panic is the  *)
(* record [panic |-> message]; it propagates through every caller.         *)
(***************************************************************************)
EXTENDS Integers, Sequences, FiniteSets, TLC

VARIABLES root_name, root, needs_one_or_many, pc, pos, types, output, arg, ret

vars == <<root_name, root, needs_one_or_many, pc, pos, types, output, arg, ret>>

(***************************************************************************)
(* Bounds of the model.                                                    *)
(***************************************************************************)
\* longest reference path, in segments, handed to schema_ref
MaxSegments == 4
\* longest allOf list handed to schema
MaxAllOf == 3
\* longest anyOf list handed to expand_type_
MaxAnyOf == 3

(***************************************************************************)
(* Characters and strings.                                                 *)
(***************************************************************************)
Uppers == <<"A","B","C","D","E","F","G","H","I","J","K","L","M",
            "N","O","P","Q","R","S","T","U","V","W","X","Y","Z">>

Lowers == <<"a","b","c","d","e","f","g","h","i","j","k","l","m",
            "n","o","p","q","r","s","t","u","v","w","x","y","z">>

\* the other characters that occur, in byte order below and above the letters
Ascii == <<"#", "$", "/", ":", "<", ">">> \o Uppers \o <<"_">> \o Lowers

Code(c) == CHOOSE i \in 1..Len(Ascii) : Ascii[i] = c

IsUpper(c) == \E i \in 1..Len(Uppers) : Uppers[i] = c

IsLower(c) == \E i \in 1..Len(Lowers) : Lowers[i] = c

IsAlphanumeric(c) == IsUpper(c) \/ IsLower(c)

ToUpper(c) == IF IsLower(c) THEN Uppers[CHOOSE i \in 1..Len(Lowers) : Lowers[i] = c] ELSE c

ToLower(c) == IF IsUpper(c) THEN Lowers[CHOOSE i \in 1..Len(Uppers) : Uppers[i] = c] ELSE c

\* str's Ord: byte-wise lexicographic, a proper prefix first
RECURSIVE StrLess(_, _)
StrLess(a, b) ==
    IF Len(b) = 0 THEN FALSE
    ELSE IF Len(a) = 0 THEN TRUE
    ELSE IF a[1] = b[1] THEN StrLess(Tail(a), Tail(b))
    ELSE Code(a[1]) < Code(b[1])

\* the keys of a BTreeMap in iteration order
RECURSIVE SortedKeys(_)
SortedKeys(keys) ==
    IF keys = {} THEN <<>>
    ELSE LET k == CHOOSE x \in keys : \A y \in keys \ {x} : StrLess(x, y)
         IN  <<k>> \o SortedKeys(keys \ {k})

StartsWith(s, prefix) ==
    /\ Len(s) >= Len(prefix)
    /\ SubSeq(s, 1, Len(prefix)) = prefix

\* does text occur in s
Contains(s, text) ==
    \E i \in 1..(Len(s) + 1 - Len(text)) : SubSeq(s, i, i + Len(text) - 1) = text

\* str::split(sep): the pieces between the occurrences of the character sep
RECURSIVE split(_, _)
split(s, sep) ==
    IF \A i \in 1..Len(s) : s[i] # sep THEN <<s>>
    ELSE LET i == CHOOSE j \in 1..Len(s) : s[j] = sep /\ \A k \in 1..(j - 1) : s[k] # sep
         IN  <<SubSeq(s, 1, i - 1)>> \o split(SubSeq(s, i + 1, Len(s)), sep)

\* Inflector's to_pascal_case: characters that are not alphanumeric separate
\* words and are dropped, an upper-case letter after a lower-case one starts a
\* word, a word's first letter is upper-cased and the others are lower-cased.
\* st = <<result, new_word, last_char, found_real_char>>
RECURSIVE pascal_fold(_, _, _)
pascal_fold(s, i, st) ==
    IF i > Len(s) THEN st[1]
    ELSE LET c == s[i] IN
         IF ~IsAlphanumeric(c) /\ st[4] THEN
            pascal_fold(s, i + 1, <<st[1], TRUE, st[3], st[4]>>)
         ELSE IF ~IsAlphanumeric(c) THEN
            pascal_fold(s, i + 1, st)
         ELSE IF st[2] \/ (IsLower(st[3]) /\ IsUpper(c)) THEN
            pascal_fold(s, i + 1, <<Append(st[1], ToUpper(c)), FALSE, st[3], TRUE>>)
         ELSE
            pascal_fold(s, i + 1, <<Append(st[1], ToLower(c)), st[2], c, TRUE>>)

to_pascal_case(s) == pascal_fold(s, 1, <<<<>>, TRUE, " ", FALSE>>)

(***************************************************************************)
(* Option, OneOrMany, panics.                                              *)
(***************************************************************************)
None == <<>>

Some(x) == <<x>>

is_some(o) == Len(o) = 1

unwrap(o) == o[1]

\* schema::OneOrMany<T>: One(Box<T>) or Many(Vec<T>); v is the slice it derefs to
One(x) == [tag |-> "One", v |-> <<x>>]

Many(vec) == [tag |-> "Many", v |-> vec]

deref(this) == this.v

Panic(msg) == [panic |-> msg]

IsPanic(x) == "panic" \in DOMAIN x

EmptyMap == [k \in {} |-> <<>>]

\* a schema::Schema with every key absent
Schema0 ==
    [ref_ |-> None, type_ |-> Many(<<>>), properties |-> EmptyMap, required |-> None,
     items |-> Many(<<>>), additional_properties |-> None, all_of |-> None,
     any_of |-> None, enum_ |-> None, default |-> None, description |-> None,
     definitions |-> EmptyMap]

(***************************************************************************)
(* Reference resolver.                                                     *)
(***************************************************************************)
HASH == <<"#">>

DEFINITIONS == <<"d","e","f","i","n","i","t","i","o","n","s">>

\* a resolver in which "#" is honoured only as the first segment
RECURSIVE schema_ref_fold_leading_hash(_, _, _)
schema_ref_fold_leading_hash(schema, comps, i) ==
    IF i > Len(comps) THEN schema
    ELSE LET comp == comps[i] IN
         IF comp = HASH /\ i = 1 THEN schema_ref_fold_leading_hash(root, comps, i + 1)
         ELSE IF comp = DEFINITIONS THEN schema_ref_fold_leading_hash(schema, comps, i + 1)
         ELSE IF comp \in DOMAIN schema.definitions
              THEN schema_ref_fold_leading_hash(schema.definitions[comp], comps, i + 1)
         ELSE Panic("Expected definition")

\* the fold of Expander::schema_ref over the segments comps[i..]
RECURSIVE schema_ref_fold(_, _, _)
schema_ref_fold(schema, comps, i) ==
    IF i > Len(comps) THEN schema
    ELSE LET comp == comps[i] IN
         IF comp = HASH THEN schema_ref_fold(root, comps, i + 1)
         ELSE IF comp = DEFINITIONS THEN schema_ref_fold(schema, comps, i + 1)
         ELSE IF comp \in DOMAIN schema.definitions
              THEN schema_ref_fold(schema.definitions[comp], comps, i + 1)
         ELSE Panic("Expected definition")

schema_ref(s) == schema_ref_fold(root, split(s, "/"), 1)

\* Expander::type_ref: [name |-> the type's name], or the panic of expect
type_ref(s) ==
    IF s = HASH
    THEN IF is_some(root_name)
         THEN [name |-> to_pascal_case(unwrap(root_name))]
         ELSE Panic("Root name")
    ELSE LET comps == split(s, "/") IN [name |-> to_pascal_case(comps[Len(comps)])]

(***************************************************************************)
(* Schema merger.                                                          *)
(***************************************************************************)
\* as_mut_vec: a One(v) is turned into Many(vec![v]) in place; the value of
\* the OneOrMany after the call, whose vector the caller then edits
as_mut_vec(this) == Many(deref(this))

\* Vec::retain
RECURSIVE retain(_, _)
retain(vec, kept) ==
    IF Len(vec) = 0 THEN <<>>
    ELSE (IF vec[1] \in kept THEN <<vec[1]>> ELSE <<>>) \o retain(Tail(vec), kept)

Range(vec) == {vec[i] : i \in 1..Len(vec)}

\* a merge_option that keeps a missing result missing
merge_option_keeps_none(result, r) ==
    IF is_some(result) /\ is_some(r) THEN Some(unwrap(result) \o unwrap(r))
    ELSE result

\* merge_option with the closure of its one call site, Vec::extend: the value
\* of *result after the call
merge_option(result, r) ==
    IF is_some(result) /\ is_some(r) THEN Some(unwrap(result) \o unwrap(r))
    ELSE IF ~is_some(result) /\ is_some(r) THEN Some(unwrap(r))
    ELSE result

\* merge_all_of: the value of *result after the call
RECURSIVE merge_all_of(_, _)
merge_all_of(result, r) ==
    [result EXCEPT
        !.properties =
            [k \in DOMAIN result.properties \cup DOMAIN r.properties |->
                IF k \notin DOMAIN r.properties THEN result.properties[k]
                ELSE IF k \notin DOMAIN result.properties THEN r.properties[k]
                ELSE merge_all_of(result.properties[k], r.properties[k])],
        !.ref_ = IF is_some(r.ref_) THEN r.ref_ ELSE @,
        !.description = IF is_some(r.description) THEN r.description ELSE @,
        !.required = merge_option(@, r.required),
        !.type_ = Many(retain(deref(as_mut_vec(@)), Range(deref(r.type_))))]

\* the fold of Expander::schema: resolved[i..] merged into result in order
RECURSIVE fold_merge(_, _, _)
fold_merge(result, resolved, i) ==
    IF i > Len(resolved) THEN result
    ELSE fold_merge(merge_all_of(result, resolved[i]), resolved, i + 1)

\* a fold seeded with the node that carries the allOf instead of its first component
all_of_fold_from_node(node, resolved) == fold_merge(node, resolved, 1)

\* all_of.iter().skip(1).fold(self.schema(&all_of[0]).clone(), ...), given the
\* resolved components; node is the schema that carries the allOf
all_of_fold(node, resolved) == fold_merge(resolved[1], resolved, 2)

\* the first panic among the resolved components, else their fold
merged(node, resolved) ==
    IF \E i \in 1..Len(resolved) : IsPanic(resolved[i])
    THEN resolved[CHOOSE i \in 1..Len(resolved) :
                      IsPanic(resolved[i]) /\ \A j \in 1..(i - 1) : ~IsPanic(resolved[j])]
    ELSE all_of_fold(node, resolved)

\* Expander::schema.  active holds the arguments of the calls of schema that
\* have not returned: a call whose argument is among them repeats without end,
\* which the process ends by exhausting its stack.
RECURSIVE schema(_, _)

\* the match on schema.all_of, node being s after its own $ref was followed
schema_all_of(s, active, node) ==
    IF IsPanic(node) THEN node
    ELSE IF is_some(node.all_of) /\ Len(unwrap(node.all_of)) > 0
         THEN merged(node, [i \in 1..Len(unwrap(node.all_of)) |->
                               schema(unwrap(node.all_of)[i], active \cup {s})])
    ELSE node

schema(s, active) ==
    IF s \in active THEN Panic("stack overflow")
    ELSE schema_all_of(s, active, IF is_some(s.ref_) THEN schema_ref(unwrap(s.ref_)) ELSE s)

(***************************************************************************)
(* Type expander.                                                          *)
(***************************************************************************)
VALUE == <<"s", "e", "r", "d", "e", "_", "j", "s", "o", "n", ":", ":", "V", "a", "l", "u", "e">>

STRING_ == <<"S", "t", "r", "i", "n", "g">>

I64 == <<"i", "6", "4">>

BOOL == <<"b", "o", "o", "l">>

F64 == <<"f", "6", "4">>

VEC == <<"V", "e", "c", "<">>

BTREEMAP ==
    <<":", ":", "s", "t", "d", ":", ":", "c", "o", "l", "l", "e", "c", "t", "i", "o", "n", "s", ":", ":", "B",
      "T", "r", "e", "e", "M", "a", "p", "<", "S", "t", "r", "i", "n", "g", ",", " ">>

ONE_OR_MANY_OF == <<"O", "n", "e", "O", "r", "M", "a", "n", "y", "<">>

BOX == <<"B", "o", "x", "<">>

OPTION == <<"O", "p", "t", "i", "o", "n", "<">>

CLOSE == <<">">>

\* struct FieldType; needs is whether computing it set self.needs_one_or_many
FieldType(typ, default, needs) == [typ |-> typ, default |-> default, needs |-> needs]

\* impl From<S> for FieldType
from(s) == FieldType(s, FALSE, FALSE)

\* a serde_json::Value: an object is held as the Schema it deserializes to
JsonObject(s) == [kind |-> "Object", object |-> <<s>>, string |-> <<>>, bool |-> <<>>]

JsonBool(b) == [kind |-> "Bool", object |-> <<>>, string |-> <<>>, bool |-> <<b>>]

JsonString(s) == [kind |-> "String", object |-> <<>>, string |-> <<s>>, bool |-> <<>>]

JsonNumber == [kind |-> "Number", object |-> <<>>, string |-> <<>>, bool |-> <<>>]

\* Value::Object(Default::default()), the JSON value {}
EmptyObject == JsonObject(Schema0)

\* serde_json::from_value::<Schema>(value).unwrap()
from_value(value) ==
    IF value.kind = "Object" THEN unwrap(value.object) ELSE Panic("called unwrap on an Err value")

\* the FieldType named by a reference, r being what type_ref returned
type_named(r) == IF IsPanic(r) THEN r ELSE from(r.name)

\* format!("<prefix>{}>", inner.typ) as a FieldType, inner being what the
\* nested expand_type_ returned
wrapped(prefix, inner, default, needs) ==
    IF IsPanic(inner) THEN inner
    ELSE FieldType(prefix \o inner.typ \o CLOSE, default, needs \/ inner.needs)

RECURSIVE expand_type_(_)

\* if simple == self.schema(&array.items[0]) { ... }, item being that schema
one_or_many_type(any_of, simple, item) ==
    IF IsPanic(item) THEN item
    ELSE IF simple = item THEN wrapped(ONE_OR_MANY_OF, expand_type_(any_of[1]), TRUE, TRUE)
    ELSE from(VALUE)

\* the anyOf branch of expand_type_, simple and array being the resolved branches
any_of_type(any_of, simple, array) ==
    IF IsPanic(simple) THEN simple
    ELSE IF IsPanic(array) THEN array
    ELSE IF Len(deref(array.type_)) = 0 THEN Panic("index out of bounds")
    ELSE IF deref(array.type_)[1] = "array" THEN
        IF Len(deref(array.items)) = 0 THEN Panic("index out of bounds")
        ELSE one_or_many_type(any_of, simple, schema(deref(array.items)[1], {}))
    ELSE from(VALUE)

\* the SimpleTypes::Object arm, prop being the deserialized additionalProperties
map_type(typ, prop) ==
    IF IsPanic(prop) THEN prop
    ELSE wrapped(BTREEMAP, expand_type_(prop), typ.default = Some(EmptyObject), FALSE)

\* Expander::expand_type_
expand_type_(typ) ==
    IF is_some(typ.ref_) THEN type_named(type_ref(unwrap(typ.ref_)))
    ELSE IF is_some(typ.any_of) /\ Len(unwrap(typ.any_of)) = 2 THEN
        any_of_type(unwrap(typ.any_of), schema(unwrap(typ.any_of)[1], {}),
                    schema(unwrap(typ.any_of)[2], {}))
    ELSE IF Len(deref(typ.type_)) = 1 THEN
        CASE deref(typ.type_)[1] = "string" ->
                IF is_some(typ.enum_) /\ Len(unwrap(typ.enum_)) = 0
                THEN from(VALUE) ELSE from(STRING_)
          [] deref(typ.type_)[1] = "integer" -> from(I64)
          [] deref(typ.type_)[1] = "boolean" -> from(BOOL)
          [] deref(typ.type_)[1] = "number" -> from(F64)
          [] deref(typ.type_)[1] = "object" /\ is_some(typ.additional_properties) ->
                map_type(typ, from_value(unwrap(typ.additional_properties)))
          [] deref(typ.type_)[1] = "array" ->
                IF Len(deref(typ.items)) = 0 THEN from(VEC \o VALUE \o CLOSE)
                ELSE wrapped(VEC, expand_type_(deref(typ.items)[1]), FALSE, FALSE)
          [] OTHER -> from(VALUE)
    ELSE from(VALUE)

\* a wrapping that makes every field that is not required optional
wrap_field_ignores_default(type_name, required, result) ==
    IF IsPanic(result) THEN result
    ELSE LET boxed == IF type_name = result.typ THEN BOX \o result.typ \o CLOSE ELSE result.typ
         IN  [result EXCEPT !.typ = IF ~required THEN OPTION \o boxed \o CLOSE ELSE boxed]

\* the two wrappings of expand_type, result being what expand_type_ returned
wrap_field(type_name, required, result) ==
    IF IsPanic(result) THEN result
    ELSE LET boxed == IF type_name = result.typ THEN BOX \o result.typ \o CLOSE ELSE result.typ
         IN  [result EXCEPT !.typ = IF ~required /\ ~result.default
                                    THEN OPTION \o boxed \o CLOSE ELSE boxed]

\* Expander::expand_type
expand_type(type_name, required, typ) == wrap_field(type_name, required, expand_type_(typ))

(***************************************************************************)
(* Field expander and declarations.                                        *)
(***************************************************************************)
\* the required test of expand_fields
is_required(s, field_name) ==
    /\ is_some(s.required)
    /\ \E i \in 1..Len(unwrap(s.required)) : unwrap(s.required)[i] = field_name

\* the fields collected by expand_fields, field_type[i] being what expand_type
\* returned for the i-th property: [fields, default, needs], or the first
\* panic.  A field holds the raw key, its type, whether it gets
\* #[serde(default)] and its doc comment's source.
collect_fields(resolved, keys, field_type) ==
    IF \E i \in 1..Len(keys) : IsPanic(field_type[i])
    THEN field_type[CHOOSE i \in 1..Len(keys) :
                        IsPanic(field_type[i]) /\ \A j \in 1..(i - 1) : ~IsPanic(field_type[j])]
    ELSE [fields |-> [i \in 1..Len(keys) |->
                         [field_name |-> keys[i],
                          typ |-> field_type[i].typ,
                          default |-> field_type[i].default,
                          comment |-> resolved.properties[keys[i]].description]],
          default |-> \A i \in 1..Len(keys) : StartsWith(field_type[i].typ, OPTION),
          needs |-> \E i \in 1..Len(keys) : field_type[i].needs]

\* the map over schema.properties, resolved being self.expander.schema(schema)
expand_properties(type_name, resolved, keys) ==
    collect_fields(resolved, keys,
        [i \in 1..Len(keys) |->
            expand_type(type_name, is_required(resolved, keys[i]), resolved.properties[keys[i]])])

fields_of(type_name, resolved) ==
    IF IsPanic(resolved) THEN resolved
    ELSE expand_properties(type_name, resolved, SortedKeys(DOMAIN resolved.properties))

\* FieldExpander::expand_fields with default: true on entry
expand_fields(type_name, s) == fields_of(type_name, schema(s, {}))

Keywords == { <<"t","y","p","e">>, <<"s","t","r","u","c","t">>, <<"e","n","u","m">> }

\* one enum variant of expand_schema: its identifier and its rename attributes
variant(v) ==
    LET pascal_case_variant == to_pascal_case(v) IN
    [name |-> IF pascal_case_variant \in Keywords
              THEN pascal_case_variant \o <<"_">> ELSE pascal_case_variant,
     renames |-> (IF pascal_case_variant = v THEN <<>> ELSE <<v>>)
                 \o (IF pascal_case_variant \in Keywords THEN <<pascal_case_variant>> ELSE <<>>)]

Declaration(kind, name, rename, derive_default, fields, variants, typ) ==
    [kind |-> kind, name |-> name, rename |-> rename, derive_default |-> derive_default,
     fields |-> fields, variants |-> variants, typ |-> typ, doc |-> None]

\* the type alias of expand_schema, typ being what expand_type returned
alias_decl(name, typ) ==
    IF IsPanic(typ) THEN typ
    ELSE [decl |-> Declaration("alias", name, None, FALSE, <<>>, <<>>, typ.typ),
          needs |-> typ.needs]

\* the declaration built by expand_schema, expanded being what expand_fields returned
type_decl_of(original_name, s, name, rename, expanded) ==
    IF IsPanic(expanded) THEN expanded
    ELSE IF Len(expanded.fields) > 0 THEN
        [decl |-> Declaration("struct", name, rename, expanded.default,
                              expanded.fields, <<>>, <<>>),
         needs |-> expanded.needs]
    ELSE IF is_some(s.enum_) /\ Len(unwrap(s.enum_)) > 0 THEN
        IF \E i \in 1..Len(unwrap(s.enum_)) : unwrap(s.enum_)[i].kind # "String"
        THEN Panic("Expected string")
        ELSE [decl |-> Declaration("enum", name, rename, FALSE, <<>>,
                                   [i \in 1..Len(unwrap(s.enum_)) |->
                                       variant(unwrap(unwrap(s.enum_)[i].string))],
                                   <<>>),
              needs |-> expanded.needs]
    ELSE alias_decl(name, expand_type(<<>>, TRUE, s))

\* Expander::expand_schema: [decl, needs], or the panic
expand_schema(original_name, s) ==
    type_decl_of(original_name, s, to_pascal_case(original_name),
                 IF original_name = to_pascal_case(original_name)
                 THEN None ELSE Some(original_name),
                 expand_fields(original_name, s))

\* a definitions map iterated from its second entry
definitions_iter_skips_first(s) ==
    IF DOMAIN s.definitions = {} THEN <<>> ELSE Tail(SortedKeys(DOMAIN s.definitions))

\* for (name, def) in &schema.definitions: the keys in iteration order
definitions_iter(s) == SortedKeys(DOMAIN s.definitions)

\* a helper text that is emitted whether it is needed or not
one_or_many_always(needs) == <<"ONE_OR_MANY">>

\* the one_or_many of Expander::expand: the copies of ONE_OR_MANY put before
\* the declarations
one_or_many(needs) == IF needs THEN <<"ONE_OR_MANY">> ELSE <<>>

(***************************************************************************)
(* Schemas the model draws its inputs from.                                *)
(***************************************************************************)
P == <<"p">>

Q == <<"q">>

O == <<"o">>

NameA == <<"A">>

NameB == <<"b">>

NameC == <<"C">>

NameX == <<"X">>

\* strings joined by "/"
RECURSIVE Join(_)
Join(segs) ==
    IF Len(segs) = 1 THEN segs[1] ELSE segs[1] \o <<"/">> \o Join(Tail(segs))

\* the reference "#/definitions/<name>"
RefTo(name) == Join(<<HASH, DEFINITIONS, name>>)

\* {"$ref": "#/definitions/<name>"}
RefNode(name) == [Schema0 EXCEPT !.ref_ = Some(RefTo(name))]

\* {"type": "<t>"}
Leaf(t) == [Schema0 EXCEPT !.type_ = One(t)]

\* sequences over S of the lengths lo..hi
SeqsOf(S, lo, hi) == UNION {[1..n -> S] : n \in lo..hi}

\* -- inputs of the reference resolver
RefSegments == {HASH, DEFINITIONS, NameA, NameB, NameX, <<>>}

RefStrings == {Join(segs) : segs \in SeqsOf(RefSegments, 1, MaxSegments)}

NestedA == [Leaf("string") EXCEPT !.definitions = (NameB :> Leaf("integer"))]

RefRoots ==
    { [Schema0 EXCEPT !.definitions = (NameA :> NestedA) @@ (NameB :> Leaf("boolean"))],
      [Schema0 EXCEPT !.definitions = (NameA :> NestedA) @@ (DEFINITIONS :> Leaf("number"))],
      [Schema0 EXCEPT !.definitions = (NameA :> NestedA) @@ (HASH :> Leaf("null"))],
      [Schema0 EXCEPT !.definitions = (NameA :> NestedA) @@ (Join(<<NameA, NameB>>) :> Leaf("object"))] }

\* -- inputs of the merger
ComponentP == [Schema0 EXCEPT !.required = Some(<<P>>), !.type_ = One("string")]

ComponentQ == [Schema0 EXCEPT !.required = Some(<<Q>>), !.type_ = Many(<<"string", "integer">>)]

MergeComponents ==
    { ComponentP, ComponentQ, Schema0,
      [Schema0 EXCEPT !.properties = (P :> [Leaf("string") EXCEPT !.required = Some(<<Q>>)]),
                      !.type_ = Many(<<"integer", "string">>),
                      !.description = Some(<<"x">>)],
      [Schema0 EXCEPT !.properties =
                          (P :> [Schema0 EXCEPT !.properties = (Q :> Leaf("integer")),
                                                !.type_ = Many(<<"string", "null">>)])
                          @@ (Q :> Leaf("boolean")),
                      !.required = Some(<<P, Q>>),
                      !.type_ = One("integer")],
      RefNode(NameA), RefNode(NameB), RefNode(NameX),
      [Schema0 EXCEPT !.all_of = Some(<<ComponentP, ComponentQ>>)] }

\* what the node carries itself, beside its allOf
OwnFields ==
    { Schema0,
      [Schema0 EXCEPT !.properties = (O :> Leaf("number")), !.required = Some(<<O>>),
                      !.type_ = One("boolean")] }

AllOfNodes ==
    { [own EXCEPT !.all_of = Some(list)] :
        own \in OwnFields, list \in SeqsOf(MergeComponents, 0, MaxAllOf) }

\* the document around a node: definitions A, b (which has a $ref of its own)
\* and C, the node
MergeRoot(node) ==
    [Schema0 EXCEPT !.definitions =
        (NameA :> [Schema0 EXCEPT !.properties = (Q :> Leaf("number")),
                                  !.required = Some(<<P>>), !.type_ = One("string")])
        @@ (NameB :> [Schema0 EXCEPT !.ref_ = Some(RefTo(NameA)), !.required = Some(<<Q>>),
                                     !.type_ = Many(<<"string">>)])
        @@ (NameC :> node)]

\* -- inputs of the type expander
\* {"type": "array", "items": <item>}
ArrayOf(item) == [Schema0 EXCEPT !.type_ = One("array"), !.items = One(item)]

\* {"anyOf": [<simple>, {"type": "array", "items": <simple>}]}
OneOrManyOf(simple) == [Schema0 EXCEPT !.any_of = Some(<<simple, ArrayOf(simple)>>)]

\* {"type": "object", "additionalProperties": <value>}
MapOf(value) == [Schema0 EXCEPT !.type_ = One("object"),
                                !.additional_properties = Some(JsonObject(value))]

AnyOfBranches ==
    { Leaf("string"), Schema0, Leaf("array"), ArrayOf(Leaf("string")), ArrayOf(Leaf("integer")),
      RefNode(NameA), ArrayOf(RefNode(NameA)), RefNode(NameC), RefNode(NameX) }

AnyOfLists == SeqsOf(AnyOfBranches, 0, MaxAnyOf)

\* what a node declares beside its anyOf
TypeOwn == { Schema0, Leaf("integer"), Leaf("string"), RefNode(NameA) }

PlainTypeNodes ==
    { Leaf("boolean"), Leaf("number"), Leaf("object"), Leaf("null"), Leaf("array"),
      [Schema0 EXCEPT !.type_ = Many(<<"string", "integer">>)],
      [Schema0 EXCEPT !.type_ = Many(<<"string">>)],
      [Leaf("string") EXCEPT !.enum_ = Some(<<>>)],
      [Leaf("string") EXCEPT !.enum_ = Some(<<JsonString(<<"x">>)>>)],
      ArrayOf(RefNode(NameA)), ArrayOf(OneOrManyOf(Leaf("string"))), ArrayOf(RefNode(HASH)),
      MapOf(Leaf("string")), MapOf(RefNode(NameA)), MapOf(OneOrManyOf(Leaf("string"))),
      [MapOf(Leaf("string")) EXCEPT !.default = Some(EmptyObject)],
      [MapOf(Leaf("string")) EXCEPT !.default = Some(JsonString(<<"x">>))],
      [Leaf("object") EXCEPT !.additional_properties = Some(JsonBool(FALSE))],
      [Leaf("string") EXCEPT !.additional_properties = Some(JsonBool(FALSE))],
      [Schema0 EXCEPT !.ref_ = Some(HASH)], RefNode(NameB), RefNode(NameX) }

TypeNodes ==
    { [own EXCEPT !.any_of = Some(list)] : own \in TypeOwn, list \in AnyOfLists }
    \cup TypeOwn \cup PlainTypeNodes

\* the document around the node: definitions A (a string), b (a struct) and C
\* (an array of strings)
TypeRoot ==
    [Schema0 EXCEPT !.definitions =
        (NameA :> Leaf("string"))
        @@ (NameB :> [Schema0 EXCEPT !.properties = (P :> Leaf("integer"))])
        @@ (NameC :> ArrayOf(Leaf("string")))]

\* -- inputs of Expander::expand
AllOf(list) == [Schema0 EXCEPT !.all_of = Some(list)]

Struct(properties, required) ==
    [Schema0 EXCEPT !.properties = properties, !.required = required]

FieldSchemas ==
    { Schema0, Leaf("string"), RefNode(NameA), RefNode(NameB), RefNode(NameX),
      [Schema0 EXCEPT !.ref_ = Some(HASH)],
      OneOrManyOf(Leaf("string")), OneOrManyOf(RefNode(NameA)), OneOrManyOf(RefNode(NameB)),
      OneOrManyOf(RefNode(NameX)),
      [OneOrManyOf(Leaf("string")) EXCEPT !.ref_ = Some(RefTo(NameA))],
      [Schema0 EXCEPT !.any_of = Some(<<Leaf("string"), ArrayOf(Leaf("integer"))>>)],
      [Schema0 EXCEPT !.any_of = Some(<<Leaf("string"), Schema0>>)],
      [Leaf("integer") EXCEPT !.any_of = Some(<<Leaf("string")>>)],
      MapOf(Leaf("string")), MapOf(RefNode(NameA)), MapOf(RefNode(NameB)),
      [MapOf(Leaf("string")) EXCEPT !.default = Some(EmptyObject)],
      ArrayOf(RefNode(NameA)), ArrayOf(RefNode(NameB)), ArrayOf(OneOrManyOf(Leaf("string"))),
      [Leaf("string") EXCEPT !.description = Some(<<"x">>)] }

\* a struct with the one property p, and one with a one-or-many property q beside it
StructDefs ==
    { Struct((P :> f), required) : f \in FieldSchemas, required \in {None, Some(<<P>>)} }
    \cup { Struct((P :> f) @@ (Q :> OneOrManyOf(Leaf("string"))), required) :
              f \in FieldSchemas, required \in {None, Some(<<Q, P>>)} }

OtherDefs ==
    { Leaf("integer"),
      OneOrManyOf(Leaf("string")),
      [Leaf("string") EXCEPT !.enum_ = Some(<<JsonString(<<"x">>), JsonString(<<"F","o","o">>)>>),
                             !.description = Some(<<"x">>)],
      [Leaf("string") EXCEPT !.enum_ = Some(<<JsonNumber>>)],
      RefNode(NameA), RefNode(NameX),
      AllOf(<<RefNode(NameA)>>), AllOf(<<RefNode(NameB)>>), AllOf(<<RefNode(NameX)>>),
      AllOf(<<RefNode(NameA), Struct((Q :> OneOrManyOf(Leaf("string"))), Some(<<Q>>))>>),
      AllOf(<<Struct((P :> Leaf("string")) @@ (Q :> Leaf("string")), None),
              Struct(EmptyMap, Some(<<P>>))>>),
      [Struct((P :> Leaf("string")), Some(<<P>>))
          EXCEPT !.all_of = Some(<<Struct((Q :> Leaf("integer")), None)>>)],
      Struct((P :> RefNode(NameB)), Some(<<P>>)),
      Struct((P :> Leaf("string")) @@ (Q :> Leaf("string")), Some(<<P>>)),
      Struct((P :> RefNode(NameB)) @@ (Q :> MapOf(RefNode(NameB))), None) }

\* what the root declares itself, beside its definitions
RootOwn ==
    { Schema0, Struct((P :> [Schema0 EXCEPT !.ref_ = Some(HASH)]), None),
      AllOf(<<RefNode(NameA)>>) }

\* what a definitions map may hold under A, and under b and C: each key absent
\* or drawn from its pool
ChoicesA == {None} \cup {Some(d) : d \in StructDefs \cup OtherDefs}

ChoicesBC ==
    {<<None, None>>, <<None, Some(Leaf("integer"))>>,
     <<Some(Leaf("boolean")), Some(Leaf("integer"))>>}
    \cup {<<Some(d), None>> : d \in OtherDefs}

Document(own, a, bc) ==
    [own EXCEPT !.definitions =
        [k \in {NameA : x \in 1..Len(a)} \cup {NameB : x \in 1..Len(bc[1])}
               \cup {NameC : x \in 1..Len(bc[2])} |->
            IF k = NameA THEN unwrap(a) ELSE IF k = NameB THEN unwrap(bc[1]) ELSE unwrap(bc[2])]]

RootNames == { None, Some(<<"R">>), Some(<<"r">>) }

(***************************************************************************)
(* Expander::expand on a document: Expander::new, then the loop of         *)
(* expand_definitions one entry at a time, the root's declaration, and the *)
(* final quote.  A panic ends the run with no output.                      *)
(***************************************************************************)
Init ==
    /\ \E own \in RootOwn, a \in ChoicesA, bc \in ChoicesBC : root = Document(own, a, bc)
    /\ root_name \in RootNames
    /\ needs_one_or_many = FALSE
    /\ pc = "expand_definitions"
    /\ pos = 1
    /\ types = <<>>
    /\ output = None
    /\ arg = None
    /\ ret = None

\* types.push(...) of a declaration that was expanded, with its doc comment
Pushed(type_decl, doc) ==
    /\ ~IsPanic(type_decl)
    /\ types' = Append(types, [type_decl.decl EXCEPT !.doc = doc])
    /\ needs_one_or_many' = (needs_one_or_many \/ type_decl.needs)
    /\ UNCHANGED <<root_name, root, output, arg, ret>>

\* the panic of an expansion ends the run
Panicked(type_decl) ==
    /\ IsPanic(type_decl)
    /\ ret' = Some(type_decl)
    /\ pc' = "panicked"
    /\ UNCHANGED <<root_name, root, needs_one_or_many, pos, types, output, arg>>

\* one iteration of the loop of expand_definitions
ExpandDefinition ==
    /\ pc = "expand_definitions"
    /\ pos <= Len(definitions_iter(root))
    /\ Pushed(expand_schema(definitions_iter(root)[pos],
                            root.definitions[definitions_iter(root)[pos]]),
              root.definitions[definitions_iter(root)[pos]].description)
    /\ pos' = pos + 1
    /\ pc' = pc

ExpandDefinitionPanics ==
    /\ pc = "expand_definitions"
    /\ pos <= Len(definitions_iter(root))
    /\ Panicked(expand_schema(definitions_iter(root)[pos],
                              root.definitions[definitions_iter(root)[pos]]))

\* if let Some(name) = self.root_name { types.push(self.expand_schema(name, schema)) }
ExpandRoot ==
    /\ pc = "expand_definitions"
    /\ pos > Len(definitions_iter(root))
    /\ is_some(root_name)
    /\ Pushed(expand_schema(unwrap(root_name), root), None)
    /\ pos' = pos
    /\ pc' = "quote"

ExpandRootPanics ==
    /\ pc = "expand_definitions"
    /\ pos > Len(definitions_iter(root))
    /\ is_some(root_name)
    /\ Panicked(expand_schema(unwrap(root_name), root))

NoRoot ==
    /\ pc = "expand_definitions"
    /\ pos > Len(definitions_iter(root))
    /\ ~is_some(root_name)
    /\ pc' = "quote"
    /\ UNCHANGED <<root_name, root, needs_one_or_many, pos, types, output, arg, ret>>

\* quote! { #one_or_many #( #types )* }
Quote ==
    /\ pc = "quote"
    /\ output' = Some([one_or_many |-> one_or_many(needs_one_or_many), types |-> types])
    /\ pc' = "done"
    /\ UNCHANGED <<root_name, root, needs_one_or_many, pos, types, arg, ret>>

Next ==
    \/ ExpandDefinition
    \/ ExpandDefinitionPanics
    \/ ExpandRoot
    \/ ExpandRootPanics
    \/ NoRoot
    \/ Quote

Spec == Init /\ [][Next]_vars

(***************************************************************************)
(* The reference resolver applied to a reference string.                   *)
(***************************************************************************)
Idle ==
    /\ root_name = None
    /\ needs_one_or_many = FALSE
    /\ pos = 1
    /\ types = <<>>
    /\ output = None

InitRef ==
    /\ root \in RefRoots
    /\ arg \in RefStrings
    /\ pc = "schema_ref"
    /\ ret = None
    /\ Idle

\* the call returns result, or panics with it
Returns(result) ==
    /\ ret' = Some(result)
    /\ pc' = IF IsPanic(result) THEN "panicked" ELSE "returned"
    /\ UNCHANGED <<root_name, root, pos, types, output, arg>>

CallSchemaRef ==
    /\ pc = "schema_ref"
    /\ Returns(schema_ref(arg))
    /\ UNCHANGED needs_one_or_many

NextRef == CallSchemaRef

SpecRef == InitRef /\ [][NextRef]_vars

(***************************************************************************)
(* Expander::schema applied to a node that carries an allOf, directly or   *)
(* behind a reference.                                                     *)
(***************************************************************************)
InitMerge ==
    /\ \E node \in AllOfNodes :
          /\ root = MergeRoot(node)
          /\ arg \in {node, RefNode(NameC)}
    /\ pc = "schema"
    /\ ret = None
    /\ Idle

CallSchema ==
    /\ pc = "schema"
    /\ Returns(schema(arg, {}))
    /\ UNCHANGED needs_one_or_many

NextMerge == CallSchema

SpecMerge == InitMerge /\ [][NextMerge]_vars

(***************************************************************************)
(* Expander::expand_type_ applied to a schema node.                        *)
(***************************************************************************)
InitType ==
    /\ root = TypeRoot
    /\ root_name \in {None, Some(<<"R">>)}
    /\ arg \in TypeNodes
    /\ pc = "expand_type_"
    /\ ret = None
    /\ needs_one_or_many = FALSE
    /\ pos = 1
    /\ types = <<>>
    /\ output = None

\* the call returns result, or panics with it, having set the flag or not
ReturnsType(result) ==
    /\ Returns(result)
    /\ needs_one_or_many' = IF IsPanic(result) THEN needs_one_or_many
                            ELSE needs_one_or_many \/ result.needs

CallExpandType_ ==
    /\ pc = "expand_type_"
    /\ ReturnsType(expand_type_(arg))

NextType == CallExpandType_

SpecType == InitType /\ [][NextType]_vars

(***************************************************************************)
(* Claims about the reference resolver.                                    *)
(***************************************************************************)
\* the runs of segments between the "#" segments of comps, in order
RECURSIVE HashRuns(_)
HashRuns(comps) ==
    IF \A i \in 1..Len(comps) : comps[i] # HASH THEN <<comps>>
    ELSE LET i == CHOOSE j \in 1..Len(comps) :
                      comps[j] = HASH /\ \A k \in 1..(j - 1) : comps[k] # HASH
         IN  <<SubSeq(comps, 1, i - 1)>> \o HashRuns(SubSeq(comps, i + 1, Len(comps)))

\* node's nested definition reached by looking up names in turn
RECURSIVE Descend(_, _)
Descend(node, names) ==
    IF Len(names) = 0 THEN node
    ELSE IF names[1] \in DOMAIN node.definitions
         THEN Descend(node.definitions[names[1]], Tail(names))
    ELSE Panic("Expected definition")

\* what the claim says a reference denotes: every "#" starts again at root, the
\* "definitions" segments are ignored and the others are looked up in turn; a
\* lookup that fails anywhere aborts, else the walk after the last "#" decides
RefDenotation(s) ==
    LET runs == HashRuns(split(s, "/"))
        walk(i) == Descend(root, SelectSeq(runs[i], LAMBDA comp : comp # DEFINITIONS))
    IN  IF \E i \in 1..Len(runs) : IsPanic(walk(i))
        THEN Panic("Expected definition")
        ELSE walk(Len(runs))

SchemaRefCalled == pc \in {"returned", "panicked"} /\ arg \in RefStrings

\* the keys that "#/definitions/<key>" reaches as one segment that is looked up
PlainKey(X) == X # HASH /\ X # DEFINITIONS /\ ~Contains(X, <<"/">>)

\* C10 as stated: schema_ref folds over the segments ("#" resets to root at any
\* position, "definitions" keeps the node, any other segment is looked up in the
\* node's definitions and its absence aborts), hence "#/definitions/X" resolves
\* to root.definitions[X] for EVERY key X of root.definitions, and "#" to root.
C10_EveryKeyResolves ==
    SchemaRefCalled =>
        /\ unwrap(ret) = RefDenotation(arg)
        /\ \A X \in DOMAIN root.definitions :
              arg = RefTo(X) => unwrap(ret) = root.definitions[X]
        /\ arg = HASH => unwrap(ret) = root

\* C10 amended: the same fold; "#/definitions/X" resolves to root.definitions[X]
\* for every key X of root.definitions that is neither "#" nor "definitions" and
\* holds no "/", and "#" resolves to root.
C10_PlainKeyResolves ==
    SchemaRefCalled =>
        /\ unwrap(ret) = RefDenotation(arg)
        /\ \A X \in DOMAIN root.definitions :
              PlainKey(X) /\ arg = RefTo(X) => unwrap(ret) = root.definitions[X]
        /\ arg = HASH => unwrap(ret) = root

\* a reference with "#" past its first segment was resolved to a definition
C10_Witness ==
    /\ pc = "returned"
    /\ arg = Join(<<NameA, HASH, DEFINITIONS, NameB>>)
    /\ NameB \in DOMAIN root.definitions
    /\ unwrap(ret) = root.definitions[NameB]

(***************************************************************************)
(* Claims about the merger.                                                *)
(***************************************************************************)
\* the schema that carries the allOf: arg, after following its own $ref once
Holder == IF is_some(arg.ref_) THEN schema_ref(unwrap(arg.ref_)) ELSE arg

HolderAllOf == IF is_some(Holder.all_of) THEN unwrap(Holder.all_of) ELSE <<>>

\* resolve(c1), ..., resolve(cn)
ResolvedComponents == [i \in 1..Len(HolderAllOf) |-> schema(HolderAllOf[i], {})]

SchemaReturned == pc = "returned" /\ arg \in AllOfNodes \cup {RefNode(NameC)}

MergedAllOf == SchemaReturned /\ Len(HolderAllOf) > 0

RequiredSet(s) == IF is_some(s.required) THEN Range(unwrap(s.required)) ELSE {}

TypeSet(s) == Range(deref(s.type_))

\* merge_all_of folded from the left over a non-empty list, written by
\* recursion on the list's last element
RECURSIVE LeftFold(_)
LeftFold(list) ==
    IF Len(list) = 1 THEN list[1]
    ELSE merge_all_of(LeftFold(SubSeq(list, 1, Len(list) - 1)), list[Len(list)])

\* C3: the merged schema of a non-empty allOf requires the union of what its
\* components require (a component without a required set adds nothing, and
\* grouping the fold differently changes nothing), and its type list holds
\* exactly the entries every component declares.
C3_RequiredUnionTypeIntersection ==
    MergedAllOf =>
        LET comps == ResolvedComponents
            n == Len(comps)
        IN  /\ RequiredSet(unwrap(ret)) = UNION {RequiredSet(comps[i]) : i \in 1..n}
            /\ TypeSet(unwrap(ret)) = {e \in TypeSet(comps[1]) : \A i \in 1..n : e \in TypeSet(comps[i])}
            /\ \A k \in 1..(n - 1) :
                  RequiredSet(merge_all_of(LeftFold(SubSeq(comps, 1, k)),
                                           LeftFold(SubSeq(comps, k + 1, n))))
                      = RequiredSet(unwrap(ret))

\* required {p} and {q} merged to {p, q} with a third component that requires
\* nothing, and the types [string], [string, integer] and [] merged to []
C3_Witness ==
    /\ MergedAllOf
    /\ HolderAllOf = <<ComponentP, Schema0, ComponentQ>>
    /\ RequiredSet(unwrap(ret)) = {P, Q}
    /\ TypeSet(unwrap(ret)) = {}

\* C9: the resolved schema of a node with a non-empty allOf is the left fold of
\* merge_all_of over its resolved components, seeded with the first: a property
\* of one component only is inserted as it is, a property of two is the merge of
\* the two, and nothing the node declares beside allOf is in the result.
C9_FoldOfComponents ==
    MergedAllOf =>
        LET comps == ResolvedComponents
            n == Len(comps)
            result == unwrap(ret)
            having(k) == {i \in 1..n : k \in DOMAIN comps[i].properties}
        IN  /\ result = LeftFold(comps)
            /\ DOMAIN result.properties = UNION {DOMAIN comps[i].properties : i \in 1..n}
            /\ \A k \in DOMAIN result.properties :
                  /\ \A i \in 1..n : having(k) = {i} => result.properties[k] = comps[i].properties[k]
                  /\ \A i, j \in 1..n :
                        i < j /\ having(k) = {i, j} =>
                            result.properties[k] =
                                merge_all_of(comps[i].properties[k], comps[j].properties[k])
            /\ RequiredSet(result) \subseteq UNION {RequiredSet(comps[i]) : i \in 1..n}
            /\ TypeSet(result) \subseteq TypeSet(comps[1])

\* a node that declares property o, required [o] and type boolean beside an
\* allOf of two components with a common property p was resolved behind a $ref
C9_Witness ==
    /\ MergedAllOf
    /\ is_some(arg.ref_)
    /\ O \in DOMAIN Holder.properties
    /\ Len(HolderAllOf) = 2
    /\ \A i \in 1..2 : P \in DOMAIN HolderAllOf[i].properties
    /\ HolderAllOf[1] # HolderAllOf[2]
    /\ O \notin DOMAIN unwrap(ret).properties
    /\ P \in DOMAIN unwrap(ret).properties

(***************************************************************************)
(* Claims about expand_type_.                                              *)
(***************************************************************************)
ExpandTypeCalled == pc \in {"returned", "panicked"} /\ arg \in TypeNodes

\* the one-or-many pattern: two branches, the second an array whose first items
\* schema equals the first branch (each after resolution)
OneOrManyPattern(typ) ==
    /\ is_some(typ.any_of)
    /\ Len(unwrap(typ.any_of)) = 2
    /\ LET simple == schema(unwrap(typ.any_of)[1], {})
           array == schema(unwrap(typ.any_of)[2], {})
       IN  /\ Len(deref(array.type_)) > 0
           /\ deref(array.type_)[1] = "array"
           /\ Len(deref(array.items)) > 0
           /\ schema(deref(array.items)[1], {}) = simple

\* every branch of the anyOf list, and every array branch's first items schema,
\* resolves
BranchesResolve(typ) ==
    \A i \in 1..Len(unwrap(typ.any_of)) :
        LET branch == schema(unwrap(typ.any_of)[i], {}) IN
        /\ ~IsPanic(branch)
        /\ Len(deref(branch.items)) > 0 => ~IsPanic(schema(deref(branch.items)[1], {}))

\* C7: a node with no $ref and an anyOf that is not the one-or-many pattern (a
\* list of another length than 2, a second branch that is no array, declares no
\* type or has no items, an element schema that differs from the first branch)
\* expands to serde_json::Value with no implicit default, without aborting,
\* whatever type the node declares.
C7_OtherAnyOfIsValue ==
    ( /\ ExpandTypeCalled
      /\ ~is_some(arg.ref_)
      /\ is_some(arg.any_of)
      /\ BranchesResolve(arg)
      /\ ~OneOrManyPattern(arg) )
    => unwrap(ret) = from(VALUE)

(***************************************************************************)
(* Claims about Expander::expand.                                          *)
(***************************************************************************)
NumDefinitions == Cardinality(DOMAIN root.definitions)

\* the i-th key of root.definitions in byte order: the one with i - 1 keys below it
KthKey(i) ==
    CHOOSE k \in DOMAIN root.definitions :
        Cardinality({y \in DOMAIN root.definitions : StrLess(y, k)}) = i - 1

\* the schema the i-th declaration was expanded from: the i-th definition, or
\* the root after the definitions
DeclSource(i) == IF i <= NumDefinitions THEN root.definitions[KthKey(i)] ELSE root

\* the declarations emitted so far that are structs
Structs == {i \in 1..Len(types) : types[i].kind = "struct"}

\* the schema of field j of declaration i
FieldSchema(i, j) == schema(DeclSource(i), {}).properties[types[i].fields[j].field_name]

FieldRequired(i, j) == types[i].fields[j].field_name \in RequiredSet(schema(DeclSource(i), {}))

OptionWrapped(typ) == StartsWith(typ, OPTION)

\* an object map whose default is the empty object
MapWithEmptyDefault(typ) ==
    /\ ~(is_some(typ.any_of) /\ Len(unwrap(typ.any_of)) = 2)
    /\ deref(typ.type_) = <<"object">>
    /\ is_some(typ.additional_properties)
    /\ typ.default = Some(EmptyObject)

\* the two types that carry an implicit default
ImplicitDefault(typ) ==
    /\ ~is_some(typ.ref_)
    /\ OneOrManyPattern(typ) \/ MapWithEmptyDefault(typ)

\* C1: an emitted field's type is wrapped in Option exactly when the field is
\* not in the resolved schema's required set and its type carries no implicit
\* default (a OneOrMany, or an object map whose default is {}): a required
\* field is never wrapped, nor is a field with an implicit default.
C1_OptionIffNotRequiredNoDefault ==
    \A i \in Structs : \A j \in 1..Len(types[i].fields) :
        LET f == types[i].fields[j] IN
        /\ OptionWrapped(f.typ) <=> (~FieldRequired(i, j) /\ ~f.default)
        /\ f.default <=> ImplicitDefault(FieldSchema(i, j))
        /\ FieldRequired(i, j) => ~OptionWrapped(f.typ)
        /\ ImplicitDefault(FieldSchema(i, j)) => ~OptionWrapped(f.typ)

\* a struct from an allOf whose merged required set holds p and not q: p is a
\* bare String and q an Option; and a field that is not required, is a
\* OneOrMany and is not wrapped
C1_Witness ==
    /\ \E i \in Structs :
          /\ is_some(DeclSource(i).all_of)
          /\ \E j, k \in 1..Len(types[i].fields) :
                /\ FieldRequired(i, j) /\ types[i].fields[j].typ = STRING_
                /\ ~FieldRequired(i, k) /\ types[i].fields[k].typ = OPTION \o STRING_ \o CLOSE
    /\ \E i \in Structs : \E j \in 1..Len(types[i].fields) :
          /\ ~FieldRequired(i, j)
          /\ StartsWith(types[i].fields[j].typ, ONE_OR_MANY_OF)

\* C2: in every declaration, a property whose computed type name equals the
\* declaration's name is emitted behind a Box: Box<T> when it is required and
\* Option<Box<T>> when it is not.
C2_SelfReferenceBoxed ==
    \A i \in Structs : \A j \in 1..Len(types[i].fields) :
        LET T == expand_type_(FieldSchema(i, j)).typ IN
        T = types[i].name =>
            types[i].fields[j].typ =
                IF FieldRequired(i, j) THEN BOX \o T \o CLOSE
                ELSE OPTION \o BOX \o T \o CLOSE \o CLOSE

\* the text of declaration decl uses the OneOrMany helper
UsesOneOrMany(decl) ==
    \/ Contains(decl.typ, ONE_OR_MANY_OF)
    \/ \E j \in 1..Len(decl.fields) : Contains(decl.fields[j].typ, ONE_OR_MANY_OF)

\* the fields, as <<declaration, field>>, whose schema is the one-or-many pattern
MatchedFields ==
    {ij \in UNION {{<<i, j>> : j \in 1..Len(types[i].fields)} : i \in Structs} :
        /\ ~is_some(FieldSchema(ij[1], ij[2]).ref_)
        /\ OneOrManyPattern(FieldSchema(ij[1], ij[2]))}

\* expanding typ meets the one-or-many pattern: at typ itself, or at the items
\* or additionalProperties schema that expand_type_ descends into
RECURSIVE MeetsPattern(_)
MeetsPattern(typ) ==
    IF is_some(typ.ref_) THEN FALSE
    ELSE IF is_some(typ.any_of) /\ Len(unwrap(typ.any_of)) = 2 THEN OneOrManyPattern(typ)
    ELSE IF Len(deref(typ.type_)) # 1 THEN FALSE
    ELSE IF deref(typ.type_)[1] = "object" /\ is_some(typ.additional_properties)
         THEN MeetsPattern(from_value(unwrap(typ.additional_properties)))
    ELSE IF deref(typ.type_)[1] = "array" /\ Len(deref(typ.items)) > 0
         THEN MeetsPattern(deref(typ.items)[1])
    ELSE FALSE

\* the schemas handed to expand_type for declaration i: the properties of a
\* struct, the schema itself of a type alias, nothing for an enum
NodesExpanded(i) ==
    IF types[i].kind = "struct"
    THEN {schema(DeclSource(i), {}).properties[k] :
             k \in DOMAIN schema(DeclSource(i), {}).properties}
    ELSE IF types[i].kind = "alias" THEN {DeclSource(i)}
    ELSE {}

SomeNodeMatched == \E i \in 1..Len(types) : \E typ \in NodesExpanded(i) : MeetsPattern(typ)

\* a field whose schema is anyOf [A, array of A] is typed OneOrMany<type of A>
\* and carries an implicit default
MatchedFieldsTyped ==
    \A ij \in MatchedFields :
        LET f == types[ij[1]].fields[ij[2]]
            A == unwrap(FieldSchema(ij[1], ij[2]).any_of)[1]
        IN  /\ f.typ = ONE_OR_MANY_OF \o expand_type_(A).typ \o CLOSE
            /\ f.default

\* C4 as stated: matched fields are typed OneOrMany<type of A> with an implicit
\* default, and the returned text holds the OneOrMany helper once when at least
\* one expanded field matched the pattern and not at all when no field did.
C4_HelperIffFieldMatched ==
    /\ MatchedFieldsTyped
    /\ pc = "done" =>
          Len(unwrap(output).one_or_many) = IF MatchedFields # {} THEN 1 ELSE 0

\* C4 (amended): matched fields are typed OneOrMany<type of A> with an implicit
\* default; the returned text holds the OneOrMany helper once when some schema
\* that expand_type_ reached (a field's, a type alias's, or an items or
\* additionalProperties schema inside one) matched the pattern, however many
\* did, and not at all when none did; the helper is there exactly when some
\* declaration's text names OneOrMany<.
C4_OneOrManyOnce ==
    /\ MatchedFieldsTyped
    /\ pc = "done" =>
          /\ Len(unwrap(output).one_or_many) = IF SomeNodeMatched THEN 1 ELSE 0
          /\ SomeNodeMatched <=>
                \E i \in 1..Len(unwrap(output).types) : UsesOneOrMany(unwrap(output).types[i])

\* text was returned for a document with three matching fields in two declarations
C4_Witness ==
    /\ pc = "done"
    /\ Cardinality(MatchedFields) >= 3
    /\ Cardinality({ij[1] : ij \in MatchedFields}) >= 2
    /\ unwrap(output).one_or_many = <<"ONE_OR_MANY">>

\* C5: the returned text holds one declaration per key of definitions, in the
\* map's order, then one for the root when a root name was given, and nothing
\* else.
C5_OneDeclarationPerDefinition ==
    pc = "done" =>
        LET decls == unwrap(output).types IN
        /\ Len(decls) = NumDefinitions + (IF is_some(root_name) THEN 1 ELSE 0)
        /\ \A i \in 1..NumDefinitions : decls[i].name = to_pascal_case(KthKey(i))
        /\ is_some(root_name) =>
              decls[NumDefinitions + 1].name = to_pascal_case(unwrap(root_name))

\* three definitions and a named root gave four declarations
C5_Witness ==
    /\ pc = "done"
    /\ NumDefinitions = 3
    /\ is_some(root_name)
    /\ Len(unwrap(output).types) = 4

\* the schemas handed to expand_schema: the definitions, and the root when named
Expanded ==
    {root.definitions[k] : k \in DOMAIN root.definitions}
    \cup (IF is_some(root_name) THEN {root} ELSE {})

Unresolved(ref_) == is_some(ref_) /\ IsPanic(schema_ref(unwrap(ref_)))

\* some $ref that expansion reaches (a definition's own, an allOf component's,
\* a property's) names a definition that does not exist
UnresolvedRefReached ==
    \E s \in Expanded :
        \/ Unresolved(s.ref_)
        \/ schema(s, {}) = Panic("Expected definition")
        \/ /\ ~IsPanic(schema(s, {}))
           /\ \E k \in DOMAIN schema(s, {}).properties :
                 Unresolved(schema(s, {}).properties[k].ref_)

\* C6: a document in which expansion reaches an unresolved $ref never yields
\* declaration text: the run aborts.
C6_UnresolvedRefAborts == pc = "done" => ~UnresolvedRefReached

\* every $ref inside node, its own included
RECURSIVE RefsIn(_)
RefsIn(node) ==
    (IF is_some(node.ref_) THEN {unwrap(node.ref_)} ELSE {})
    \cup UNION {RefsIn(node.properties[k]) : k \in DOMAIN node.properties}
    \cup UNION {RefsIn(deref(node.items)[i]) : i \in 1..Len(deref(node.items))}
    \cup (IF is_some(node.additional_properties)
             /\ unwrap(node.additional_properties).kind = "Object"
          THEN RefsIn(unwrap(unwrap(node.additional_properties).object)) ELSE {})
    \cup (IF is_some(node.all_of)
          THEN UNION {RefsIn(unwrap(node.all_of)[i]) : i \in 1..Len(unwrap(node.all_of))}
          ELSE {})
    \cup (IF is_some(node.any_of)
          THEN UNION {RefsIn(unwrap(node.any_of)[i]) : i \in 1..Len(unwrap(node.any_of))}
          ELSE {})

\* the named schemas of the document: its definitions, and "#" for the root
Named == DOMAIN root.definitions \cup {HASH}

\* k's schema holds a $ref to j
RefersTo(k, j) ==
    (IF j = HASH THEN HASH ELSE RefTo(j))
        \in RefsIn(IF k = HASH THEN [root EXCEPT !.definitions = EmptyMap]
                   ELSE root.definitions[k])

\* j is reached from k along one or more references, at most n
RECURSIVE Reaches(_, _, _)
Reaches(k, j, n) ==
    /\ n > 0
    /\ \/ RefersTo(k, j)
       \/ \E m \in Named \ {k} : RefersTo(k, m) /\ Reaches(m, j, n - 1)

\* no reference cycle passes through two different named schemas
OnlySelfReferenceCycles ==
    \A k, j \in Named :
        k # j => ~(Reaches(k, j, Cardinality(Named)) /\ Reaches(j, k, Cardinality(Named)))

\* C8: on a document whose only reference cycles are self-references (from a
\* property, array items, additionalProperties or an allOf/anyOf component),
\* expand never recurses without bound.
C8_SelfReferenceTerminates ==
    OnlySelfReferenceCycles => ~(pc = "panicked" /\ unwrap(ret) = Panic("stack overflow"))

====
